---- MODULE Spec2Model ----
(***************************************************************************)
(* Model of the connection/session bridge of the Figma MCP client.         *)
(*                                                                         *)
(* Part 1: WebSocketClient (src/tauri-mcp-client/src/app/page.tsx,         *)
(* lines 175-334): the socket channel with its reconnection timer, the     *)
(* connect() promise with its polling path and 10 s timeout, the map of    *)
(* pending queries and the handling of inbound messages.                   *)
(*                                                                         *)
(* Browser sockets are modelled by a small pool of slots.  A slot holds    *)
(* one WebSocket object together with the promise and the timeout timer    *)
(* that connect() created with it; it is reused once the socket's close    *)
(* event has been dispatched and the timer has fired.  The server is the   *)
(* environment: for a query it received it may emit progress events and    *)
(* one terminal event on the socket the query came in on, or nothing.      *)
(*                                                                         *)
(* Part 2: FigmaMCPClient (src/unnamed/part_000, lines 7-181) and          *)
(* McpClient (src/tauri-mcp-client/src/lib/mcpClient.ts, lines 28-167).    *)
(* A call on FigmaMCPClient is a task that runs up to its next await; the  *)
(* protocol client of the SDK and the subprocess behind it are the         *)
(* environment, which settles each awaited promise either way.             *)
(***************************************************************************)
EXTENDS Integers, Sequences, FiniteSets, TLC

\* ---- bounds of the model ----
MaxSlots == 2          \* sockets (with their promise and timer) alive at once
MaxQueries == 2        \* sendQuery calls made in one behaviour
MaxProgress == 2       \* progress events the server emits in all
MaxTimers == 2         \* reconnect timers pending at once
MaxCalls == 2          \* connect, sendQuery and disconnect calls made by callers
MaxTasks == 3          \* calls made on FigmaMCPClient and McpClient in one behaviour
MaxSessions == 2       \* sessions the Session Store creates
MaxAppends == 2        \* appendMessage calls made on the Session Store in all
MaxTicks == 3          \* runs of the CLI's keepAlive() in one run of the program
MaxInbound == 2        \* messages other than query events delivered in all

\* ---- program constants ----
maxReconnectAttempts == 5
reconnectDelay == 1000

Slots == 1..MaxSlots
Queries == 1..MaxQueries

\* the origin of a query whose socket has closed
Gone == -1

\* callers of connect(): the component's mount effect, the reconnect timer,
\* sendQuery (identified by the query it is about to register), and ping
NoCall == 0
MountCall == -1
ReconnectCall == -2
PingCall == -3
Callers == {MountCall, ReconnectCall, PingCall} \cup Queries

VARIABLES
  ws,                 \* this.ws: 0 is null, else the slot of the socket
  sock,               \* per slot: readyState, connect promise, timeout timer
  isConnecting,       \* this.isConnecting
  reconnectAttempts,  \* this.reconnectAttempts
  reconnectTimers,    \* delays of the pending scheduleReconnect timers
  pendingQueries,     \* keys of this.pendingQueries
  poller,             \* caller waiting in connect()'s checkConnection loop
  issued,             \* number of sendQuery calls made
  calls,              \* number of calls made by callers
  origin,             \* per query: slot it was sent on (0: not sent, Gone: closed since)
  srv,                \* per query: server side progress of the query
  log,                \* per query: callbacks invoked, in order
  interfered,         \* a caller's connect() created a socket beside the supervisor
  pings,              \* per slot: pings sent on the socket, pongs received on it
  stopped,            \* disconnect() was the last call a caller made
  inbound,            \* the last other message delivered, and how many were
  transport,          \* FigmaMCPClient.transport: 0 is null, else the task that created it
  isConnected,        \* FigmaMCPClient.isConnected
  sdkTransport,       \* the transport the protocol client writes to (0: none)
  task,               \* per call on FigmaMCPClient: operation, position, outcome
  started,            \* number of calls made on FigmaMCPClient
  connected,          \* McpClient.connected
  mcp,                \* the calls made on McpClient, with their outcomes
  cli,                \* the run of FigmaMCPClientCLI: command, position, exit status
  sessions,           \* Session Store: per identifier, the session stored under it
  created,            \* Session Store: number of identifiers assigned
  reply,              \* Session Store: what the last operation returned
  accepted,           \* per session: the messages of the appendMessage calls that returned
  accordions,         \* FastAPIManager: the accordions state, first to last
  chatSessions,       \* FastAPIManager: the sessions state (ids)
  uiError,            \* FastAPIManager: the error state
  jobs,               \* FastAPIManager: the requests to the session endpoints in flight
  deleted             \* the queries whose session the server has deleted

wsVars == <<ws, sock, isConnecting, reconnectAttempts, reconnectTimers,
            pendingQueries, poller, issued, calls, origin, srv, log,
            interfered, pings, stopped, inbound>>

figVars == <<transport, isConnected, sdkTransport, task, started>>

mcpVars == <<connected, mcp>>

cliVars == <<cli>>

storeVars == <<sessions, created, reply, accepted>>

mgrVars == <<accordions, chatSessions, uiError, jobs, deleted>>

vars == <<wsVars, figVars, mcpVars, cliVars, storeVars, mgrVars>>

\* the whole state as one record, so that handlers compose as functions
State ==
  [ws |-> ws, sock |-> sock, isConnecting |-> isConnecting,
   reconnectAttempts |-> reconnectAttempts, reconnectTimers |-> reconnectTimers,
   pendingQueries |-> pendingQueries, poller |-> poller, issued |-> issued,
   calls |-> calls,
   origin |-> origin, srv |-> srv, log |-> log,
   interfered |-> interfered, pings |-> pings, stopped |-> stopped,
   inbound |-> inbound]

WsBecomes(c) ==
  /\ ws' = c.ws
  /\ sock' = c.sock
  /\ isConnecting' = c.isConnecting
  /\ reconnectAttempts' = c.reconnectAttempts
  /\ reconnectTimers' = c.reconnectTimers
  /\ pendingQueries' = c.pendingQueries
  /\ poller' = c.poller
  /\ issued' = c.issued
  /\ calls' = c.calls
  /\ origin' = c.origin
  /\ srv' = c.srv
  /\ log' = c.log
  /\ interfered' = c.interfered
  /\ stopped' = c.stopped
  /\ inbound' = c.inbound
  /\ pings' = c.pings
  /\ UNCHANGED <<figVars, mcpVars, cliVars, storeVars>>

Becomes(c) == WsBecomes(c) /\ UNCHANGED mgrVars

\* WebSocketMessage.type
MessageTypes == {"query", "progress", "result", "error", "ping", "pong"}

NoMessage == [n |-> 0, type |-> "none", data |-> FALSE]

FreeSock == [state |-> "CLOSED", promise |-> "none", timeout |-> FALSE, owner |-> NoCall]

Pow2(n) == IF n <= 0 THEN 1 ELSE 2 ^ n

\* this.ws?.readyState === WebSocket.OPEN
isOpen(c) == c.ws # 0 /\ c.sock[c.ws].state = "OPEN"

\* a slot whose socket has closed and whose timeout timer has fired
Free(c, s) == c.sock[s].state = "CLOSED" /\ ~c.sock[s].timeout

\* the reconnection supervisor has exhausted its attempts
GivenUpIn(c) ==
  /\ c.reconnectAttempts >= maxReconnectAttempts
  /\ c.reconnectTimers = <<>>
  /\ c.ws = 0
  /\ ~c.isConnecting
  /\ \A s \in Slots : c.sock[s].state = "CLOSED"

GivenUp == GivenUpIn(State)

\* ---- WebSocketClient.handleMessage ----

\* the record of one callback invocation on query q for message m
Event(c, m, q) == [type |-> m.type, from |-> m.q, n |-> m.n, late |-> c.origin[q] = Gone]

\* every pending query's callback is invoked for the message
Invoke(c, m) ==
  [q \in Queries |-> IF q \in c.pendingQueries
                     THEN Append(c.log[q], Event(c, m, q))
                     ELSE c.log[q]]

\* handleMessage without "this.pendingQueries.delete(queryId)" after onResult
handleMessageResultKept(c, m) ==
  IF m.type = "progress" /\ m.data
  THEN [c EXCEPT !.log = Invoke(c, m)]
  ELSE IF m.type = "result" /\ m.data
  THEN [c EXCEPT !.log = Invoke(c, m)]
  ELSE IF m.type = "error" /\ m.data
  THEN [c EXCEPT !.log = Invoke(c, m),
                 !.pendingQueries = {q \in c.pendingQueries : FALSE}]
  ELSE c

\* handleMessage without "this.pendingQueries.delete(queryId)" after onError
handleMessageErrorKept(c, m) ==
  IF m.type = "progress" /\ m.data
  THEN [c EXCEPT !.log = Invoke(c, m)]
  ELSE IF m.type = "result" /\ m.data
  THEN [c EXCEPT !.log = Invoke(c, m),
                 !.pendingQueries = {q \in c.pendingQueries : FALSE}]
  ELSE IF m.type = "error" /\ m.data
  THEN [c EXCEPT !.log = Invoke(c, m)]
  ELSE c

\* handleMessage with a final "else" that takes any other message for a result
handleMessagePongRouted(c, m) ==
  IF m.type = "progress" /\ m.data
  THEN [c EXCEPT !.log = Invoke(c, m)]
  ELSE IF m.type = "error" /\ m.data
  THEN [c EXCEPT !.log = Invoke(c, m),
                 !.pendingQueries = {q \in c.pendingQueries : FALSE}]
  ELSE [c EXCEPT !.log = Invoke(c, m),
                 !.pendingQueries = {q \in c.pendingQueries : FALSE}]

\* handleMessage without the "&& message.data" of its three tests
handleMessageDataIgnored(c, m) ==
  IF m.type = "progress"
  THEN [c EXCEPT !.log = Invoke(c, m)]
  ELSE IF m.type = "result"
  THEN [c EXCEPT !.log = Invoke(c, m),
                 !.pendingQueries = {q \in c.pendingQueries : FALSE}]
  ELSE IF m.type = "error"
  THEN [c EXCEPT !.log = Invoke(c, m),
                 !.pendingQueries = {q \in c.pendingQueries : FALSE}]
  ELSE c

handleMessage(c, m) ==
  IF m.type = "progress" /\ m.data
  THEN [c EXCEPT !.log = Invoke(c, m)]
  ELSE IF m.type = "result" /\ m.data
  THEN [c EXCEPT !.log = Invoke(c, m),
                 !.pendingQueries = {q \in c.pendingQueries : FALSE}]
  ELSE IF m.type = "error" /\ m.data
  THEN [c EXCEPT !.log = Invoke(c, m),
                 !.pendingQueries = {q \in c.pendingQueries : FALSE}]
  ELSE c

\* ---- WebSocketClient.scheduleReconnect ----

\* scheduleReconnect with "<=" for "<" in its guard
scheduleReconnectOffByOne(c) ==
  IF c.reconnectAttempts <= maxReconnectAttempts
  THEN [c EXCEPT !.reconnectTimers =
                   Append(@, reconnectDelay * Pow2(c.reconnectAttempts))]
  ELSE c

scheduleReconnect(c) ==
  IF c.reconnectAttempts < maxReconnectAttempts
  THEN [c EXCEPT !.reconnectTimers =
                   Append(@, reconnectDelay * Pow2(c.reconnectAttempts))]
  ELSE c

\* ---- WebSocketClient.sendQuery, after "await this.connect()" ----

\* pendingQueries.set(queryId, options); this.ws!.send(...).  The send
\* reaches the server only on an open socket: on null or a connecting
\* socket it throws, on a closing socket the data is discarded.
\* sendQuery that sends only when no other query is pending
sendQueryTailBlocking(c, q) ==
  IF isOpen(c) /\ c.pendingQueries = {}
  THEN [c EXCEPT !.pendingQueries = @ \cup {q},
                 !.origin[q] = c.ws,
                 !.srv[q] = [st |-> "running", n |-> 0]]
  ELSE [c EXCEPT !.pendingQueries = @ \cup {q}]

sendQueryTail(c, q) ==
  IF isOpen(c)
  THEN [c EXCEPT !.pendingQueries = @ \cup {q},
                 !.origin[q] = c.ws,
                 !.srv[q] = [st |-> "running", n |-> 0]]
  ELSE [c EXCEPT !.pendingQueries = @ \cup {q}]

\* ---- WebSocketClient.ping, after "await this.connect()" ----

\* this.ws!.send({type: 'ping'}): reaches the server only on an open socket
pingTail(c) ==
  IF isOpen(c) THEN [c EXCEPT !.pings[c.ws].sent = @ + 1] ELSE c

\* the caller's code after its connect() promise settled
settle(c, caller, result) ==
  IF caller \in Queries /\ result = "true" THEN sendQueryTail(c, caller)
  ELSE IF caller = PingCall /\ result = "true" THEN pingTail(c)
  ELSE c

\* ---- WebSocketClient.connect ----

FreeSlot(c) == CHOOSE s \in Slots : Free(c, s) /\ \A t \in Slots : Free(c, t) => s <= t

\* the supervisor is at work: a reconnect timer is pending or a socket is alive
SupervisorActive(c) ==
  c.reconnectTimers # <<>> \/ \E s \in Slots : c.sock[s].state # "CLOSED"

\* what the model needs to run connect(): a place in the polling loop or a slot
CanConnect(c) ==
  IF c.isConnecting THEN isOpen(c) \/ c.poller = NoCall
  ELSE isOpen(c) \/ \E s \in Slots : Free(c, s)

connect(c, caller) ==
  IF c.isConnecting
  THEN \* checkConnection(): resolve at once or poll every 100 ms
       IF isOpen(c) THEN settle(c, caller, "true")
       ELSE [c EXCEPT !.poller = caller]
  ELSE IF isOpen(c)
  THEN settle(c, caller, "true")
  ELSE LET s == FreeSlot(c)
       IN [c EXCEPT !.isConnecting = TRUE,
                    !.ws = s,
                    !.sock[s] = [state |-> "CONNECTING", promise |-> "pending",
                                 timeout |-> TRUE, owner |-> caller],
                    !.interfered = @ \/ (caller # ReconnectCall /\ SupervisorActive(c))]

\* reject or resolve the promise that connect() created with socket s
settlePromise(c, s, result) ==
  IF c.sock[s].promise = "pending"
  THEN settle([c EXCEPT !.sock[s].promise = IF result = "true" THEN "resolved" ELSE "rejected",
                        !.sock[s].owner = NoCall],
              c.sock[s].owner, result)
  ELSE c

\* ws.onopen
onopen(c, s) ==
  settlePromise([c EXCEPT !.sock[s].state = "OPEN",
                          !.isConnecting = FALSE,
                          !.reconnectAttempts = 0],
                s, "true")

\* ws.onerror
onerror(c, s) == settlePromise([c EXCEPT !.isConnecting = FALSE], s, "rejected")

\* ws.onclose; the queries sent on s lose their server side
onclose(c, s) ==
  scheduleReconnect(
    [c EXCEPT !.sock[s] = [FreeSock EXCEPT !.timeout = c.sock[s].timeout],
              !.isConnecting = FALSE,
              !.ws = 0,
              !.origin = [q \in Queries |-> IF @[q] = s THEN Gone ELSE @[q]],
              !.srv = [q \in Queries |-> IF c.origin[q] = s /\ @[q].st = "running"
                                         THEN [@[q] EXCEPT !.st = "lost"] ELSE @[q]]])

\* the setTimeout(..., 10000) callback of the connect() that created s
connectionTimeout(c, s) ==
  LET d == [c EXCEPT !.sock[s].timeout = FALSE]
  IN IF c.isConnecting
     THEN settlePromise([d EXCEPT !.isConnecting = FALSE], s, "rejected")
     ELSE d

\* checkConnection that takes the end of the attempt for its success
checkConnectionEndIsSuccess(c) ==
  IF isOpen(c) THEN settle([c EXCEPT !.poller = NoCall], c.poller, "true")
  ELSE IF ~c.isConnecting THEN settle([c EXCEPT !.poller = NoCall], c.poller, "true")
  ELSE c

\* one run of checkConnection() from its 100 ms timer
checkConnection(c) ==
  IF isOpen(c) THEN settle([c EXCEPT !.poller = NoCall], c.poller, "true")
  ELSE IF ~c.isConnecting THEN settle([c EXCEPT !.poller = NoCall], c.poller, "false")
  ELSE c

\* ---- WebSocketClient.disconnect ----

disconnect(c) ==
  LET d == IF c.ws # 0
           THEN [c EXCEPT !.sock[c.ws].state =
                            IF @ \in {"CONNECTING", "OPEN"} THEN "CLOSING" ELSE @,
                          !.ws = 0]
           ELSE c
  IN [d EXCEPT !.pendingQueries = {}, !.stopped = TRUE]

\* ==== FigmaMCPClient ====

Tasks == 1..MaxTasks

\* the operations a caller can invoke on FigmaMCPClient
Dispatch == {"listCapabilities", "listTools", "listPrompts", "callTool", "getPrompt"}
Ops == {"connect", "disconnect"} \cup Dispatch

NoTask == [op |-> "none", pc |-> "idle", sent |-> 0, err |-> "none", chan |-> "none"]

\* the client's state as one record, so that its methods compose as functions
Fig ==
  [transport |-> transport, isConnected |-> isConnected,
   sdkTransport |-> sdkTransport, task |-> task, started |-> started]

FigBecomes(f) ==
  /\ transport' = f.transport
  /\ isConnected' = f.isConnected
  /\ sdkTransport' = f.sdkTransport
  /\ task' = f.task
  /\ started' = f.started
  /\ UNCHANGED <<wsVars, mcpVars, cliVars, storeVars, mgrVars>>

FigInit ==
  /\ transport = 0
  /\ isConnected = FALSE
  /\ sdkTransport = 0
  /\ task = [t \in Tasks |-> NoTask]
  /\ started = 0

\* isClientConnected()
isClientConnected(f) == f.isConnected

\* the call of task t ends: "throw error" or return
Throw(f, t, e) == [f EXCEPT !.task[t].pc = "threw", !.task[t].err = e]

Return(f, t) == [f EXCEPT !.task[t].pc = "returned"]

\* the awaited request of task t was answered: return response
requestResolved(f, t) == Return(f, t)

\* the catch block of a dispatcher method without its "throw error"
requestRejectedSwallowed(f, t, e) == Return(f, t)

\* the catch block of a dispatcher method that sends the request again
requestRejectedRetry(f, t, e) ==
  [f EXCEPT !.task[t].pc = "request", !.task[t].sent = @ + 1]

\* the awaited request of task t was rejected with error e: the catch block
\* logs and rethrows it (listCapabilities, and connect's use of it, have no
\* handler or rethrow as well)
requestRejected(f, t, e) == Throw(f, t, e)

\* await this.client.request(...): the protocol client writes one request to
\* its transport and the task waits; without a transport it rejects at once
clientRequest(f, t) ==
  IF f.sdkTransport = 0
  THEN requestRejected(f, t, "ConnectionClosed")
  ELSE [f EXCEPT !.task[t].pc = "request", !.task[t].sent = @ + 1]

listCapabilities(f, t) ==
  IF ~f.isConnected THEN Throw(f, t, "NotConnected") ELSE clientRequest(f, t)

\* listTools without its "if (!this.isConnected)" guard
listToolsUnguarded(f, t) == clientRequest(f, t)

listTools(f, t) ==
  IF ~f.isConnected THEN Throw(f, t, "NotConnected") ELSE clientRequest(f, t)

listPrompts(f, t) ==
  IF ~f.isConnected THEN Throw(f, t, "NotConnected") ELSE clientRequest(f, t)

callTool(f, t) ==
  IF ~f.isConnected THEN Throw(f, t, "NotConnected") ELSE clientRequest(f, t)

getPrompt(f, t) ==
  IF ~f.isConnected THEN Throw(f, t, "NotConnected") ELSE clientRequest(f, t)

\* connect(): new StdioClientTransport(...); await this.client.connect(transport)
\* The protocol client takes the transport and spawns the subprocess.
figmaConnect(f, t) ==
  [f EXCEPT !.transport = t,
            !.sdkTransport = t,
            !.task[t].pc = "handshake",
            !.task[t].chan = "starting"]

\* connect() after client.connect resolved: isConnected = true, then
\* await this.listCapabilities()
connectResolved(f, t) == listCapabilities([f EXCEPT !.isConnected = TRUE], t)

\* connect() after client.connect rejected: catch, log, throw error
connectRejected(f, t) == Throw(f, t, "Connect")

\* disconnect(): if (this.isConnected) await this.client.close()
figmaDisconnect(f, t) ==
  IF f.isConnected THEN [f EXCEPT !.task[t].pc = "close"] ELSE Return(f, t)

\* disconnect() after client.close() resolved: isConnected = false
closeResolved(f, t) == Return([f EXCEPT !.isConnected = FALSE], t)

\* disconnect() after client.close() rejected: catch, log, return
closeRejected(f, t) == Return(f, t)

\* the method that task t runs, up to its first await
Call(f, t, op) ==
  CASE op = "connect" -> figmaConnect(f, t)
    [] op = "disconnect" -> figmaDisconnect(f, t)
    [] op = "listCapabilities" -> listCapabilities(f, t)
    [] op = "listTools" -> listTools(f, t)
    [] op = "listPrompts" -> listPrompts(f, t)
    [] op = "callTool" -> callTool(f, t)
    [] op = "getPrompt" -> getPrompt(f, t)

\* ---- the protocol client and its subprocess channel (environment) ----

\* the requests in flight are rejected, each in its own method
RECURSIVE RejectPending(_, _)
RejectPending(f, T) ==
  IF T = {} THEN f
  ELSE LET t == CHOOSE x \in T : TRUE
           g == IF f.task[t].pc = "request"
                THEN requestRejected(f, t, "ConnectionClosed") ELSE f
       IN RejectPending(g, T \ {t})

\* a transport of the protocol client closes: the client forgets its
\* transport and rejects every request in flight with "connection closed"
protocolClosed(f) == RejectPending([f EXCEPT !.sdkTransport = 0], Tasks)

\* client.close(): the transport the protocol client holds is closed and
\* its subprocess channel released
transportClosed(f) ==
  IF f.sdkTransport = 0 THEN f
  ELSE protocolClosed([f EXCEPT !.task[f.sdkTransport].chan = "closed"])

\* the subprocess channels that are spawned and not released
Live(f) == {t \in Tasks : f.task[t].chan \in {"starting", "open"}}

\* ---- the actions of FigmaMCPClient ----

\* a caller invokes an operation
FigStart(op) ==
  /\ started + Len(mcp) < MaxTasks
  /\ LET t == started + 1
     IN FigBecomes(Call([Fig EXCEPT !.started = t, !.task[t].op = op], t, op))

\* client.connect(transport) resolves: subprocess up, handshake done
ClientConnectOk(t) ==
  /\ task[t].pc = "handshake"
  /\ task[t].chan = "starting"
  /\ FigBecomes(connectResolved([Fig EXCEPT !.task[t].chan = "open"], t))

\* client.connect(transport) rejects: the spawn failed, or the handshake
\* failed and the protocol client closed the transport
ClientConnectFail(t) ==
  /\ task[t].pc = "handshake"
  /\ FigBecomes(connectRejected(
       [Fig EXCEPT !.task[t].chan = "closed",
                   !.sdkTransport = IF @ = t THEN 0 ELSE @], t))

\* the request of task t is settled: by the server's result, or by an error
\* (an error response, or the protocol client's request timeout)
Response(t, ok) ==
  /\ task[t].pc = "request"
  /\ ok => sdkTransport # 0
  /\ FigBecomes(IF ok THEN requestResolved(Fig, t)
                ELSE requestRejected(Fig, t, "RequestError"))

\* client.close() of the disconnect() of task t resolves
CloseOk(t) ==
  /\ task[t].pc = "close"
  /\ FigBecomes(closeResolved(transportClosed(Fig), t))

\* client.close() of the disconnect() of task t raises
CloseRaise(t) ==
  /\ task[t].pc = "close"
  /\ FigBecomes(closeRejected(Fig, t))

\* the subprocess of the transport created by task u exits or its pipe breaks
ChannelLost(u) ==
  /\ task[u].chan = "open"
  /\ FigBecomes(protocolClosed([Fig EXCEPT !.task[u].chan = "closed"]))

FigNext ==
  \/ \E op \in Ops : FigStart(op)
  \/ \E t \in Tasks : ClientConnectOk(t)
  \/ \E t \in Tasks : ClientConnectFail(t)
  \/ \E t \in Tasks, ok \in BOOLEAN : Response(t, ok)
  \/ \E t \in Tasks : CloseOk(t)
  \/ \E t \in Tasks : CloseRaise(t)
  \/ \E u \in Tasks : ChannelLost(u)

\* ==== McpClient ====

\* the names of the tools that listTools() returns
Catalogue ==
  {"get_document_info", "get_selection", "create_rectangle", "create_frame",
   "create_text", "join_channel"}

\* the tool names callers pass to callTool
ToolNames == {"get_document_info", "join_channel", "nonexistent_tool"}

McpInit ==
  /\ connected = FALSE
  /\ mcp = <<>>

\* one call on McpClient as the caller sees it
Outcome(op, name, out, isError, text) ==
  [op |-> op, name |-> name, out |-> out, isError |-> isError, text |-> text]

\* connect(): this.connected = true; return true
mcpConnect(m) ==
  [connected |-> TRUE,
   mcp |-> Append(m.mcp, Outcome("connect", "", "true", "unset", FALSE))]

\* listTools(): throws when not connected, else returns the mock catalogue
mcpListTools(m) ==
  IF ~m.connected
  THEN [m EXCEPT !.mcp = Append(@, Outcome("listTools", "", "NotConnected", "unset", FALSE))]
  ELSE [m EXCEPT !.mcp = Append(@, Outcome("listTools", "", "catalogue", "unset", FALSE))]

\* the arguments callers pass to callTool: a plain object, or one that
\* JSON.stringify rejects (a cyclic structure)
ToolArgs == {"plain", "cyclic"}

\* callTool(): throws when not connected; else returns the mock result, or
\* from its catch block the error result when building the text threw
mcpCallTool(m, name, args) ==
  IF ~m.connected
  THEN [m EXCEPT !.mcp = Append(@, Outcome("callTool", name, "NotConnected", "unset", FALSE))]
  ELSE IF args = "plain"
  THEN [m EXCEPT !.mcp = Append(@, Outcome("callTool", name, "result", "unset", TRUE))]
  ELSE [m EXCEPT !.mcp = Append(@, Outcome("callTool", name, "result", "true", TRUE))]

\* disconnect(): this.connected = false
mcpDisconnect(m) ==
  [connected |-> FALSE,
   mcp |-> Append(m.mcp, Outcome("disconnect", "", "void", "unset", FALSE))]

Mcp == [connected |-> connected, mcp |-> mcp]

McpBecomes(m) ==
  /\ connected' = m.connected
  /\ mcp' = m.mcp
  /\ UNCHANGED <<wsVars, figVars, cliVars, storeVars, mgrVars>>

McpCall(op, name, args) ==
  /\ started + Len(mcp) < MaxTasks
  /\ McpBecomes(CASE op = "connect" -> mcpConnect(Mcp)
                  [] op = "disconnect" -> mcpDisconnect(Mcp)
                  [] op = "listTools" -> mcpListTools(Mcp)
                  [] op = "callTool" -> mcpCallTool(Mcp, name, args))

McpNext ==
  \/ \E op \in {"connect", "disconnect", "listTools"} : McpCall(op, "", "plain")
  \/ \E name \in ToolNames, args \in ToolArgs : McpCall("callTool", name, args)

\* ==== FastAPIManager: the query accordions ====

\* handleQuery: const tempId = Date.now().toString(), one per query
TempId(q) == <<"temp", q>>

\* result.session_id: the session the server opened for query p
SessionId(p) == <<"session", p>>

\* the positions in q's log where handleQuery's onResult ran
ResultsOf(c, q) == {i \in 1..Len(c.log[q]) : c.log[q][i].type = "result"}

\* the id of the accordion that handleQuery prepended for query q: tempId,
\* until an onResult of q's callbacks replaces it by result.session_id
AccordionId(c, q) ==
  IF ResultsOf(c, q) = {} THEN TempId(q)
  ELSE LET i == CHOOSE j \in ResultsOf(c, q) : \A k \in ResultsOf(c, q) : j <= k
       IN SessionId(c.log[q][i].from)

\* the queries that have an accordion in the list
Accordions(c) == 1..c.issued

\* ---- FastAPIManager: the accordion list and the session endpoints ----

\* the component's state as one record, so that its handlers compose as functions
Mgr ==
  [accordions |-> accordions, chatSessions |-> chatSessions,
   uiError |-> uiError, jobs |-> jobs, deleted |-> deleted]

MgrBecomes(M) ==
  /\ accordions' = M.accordions
  /\ chatSessions' = M.chatSessions
  /\ uiError' = M.uiError
  /\ jobs' = M.jobs
  /\ deleted' = M.deleted

MgrInit ==
  /\ accordions = <<>>
  /\ chatSessions = <<>>
  /\ uiError = "none"
  /\ jobs = {}
  /\ deleted = {}

\* the ids an accordion can carry
AccordionIds == {TempId(q) : q \in Queries} \cup {SessionId(q) : q \in Queries}

\* a request to a session endpoint that has not returned yet
Job(stage, id) == [stage |-> stage, id |-> id]

NoId == <<"none", 0>>

\* setAccordions(prev => prev.map(acc => acc.id === id ? F(acc) : acc))
MapWhere(accs, id, F(_)) ==
  [i \in 1..Len(accs) |-> IF accs[i].id = id THEN F(accs[i]) ELSE accs[i]]

\* handleQuery up to "await websocketClient.sendQuery": setError(null), and
\* the new accordion is put in front of the list; q records the query
newAccordion(q) ==
  [id |-> TempId(q), q |-> q, isLoading |-> TRUE, status |-> "initializing"]

handleQuery(M, q) ==
  [M EXCEPT !.uiError = "none", !.accordions = <<newAccordion(q)>> \o @]

\* handleQuery's onProgress
onProgress(M, q) ==
  [M EXCEPT !.accordions =
     MapWhere(@, TempId(q), LAMBDA acc : [acc EXCEPT !.status = "progress"])]

\* loadSessionMessages(sessionId) up to its await
loadSessionMessages(M, id) ==
  [M EXCEPT !.accordions =
              MapWhere(@, id, LAMBDA acc : [acc EXCEPT !.isLoading = TRUE]),
            !.jobs = @ \cup {Job("messages", id)}]

\* handleQuery's onResult, for the result of query p, up to its first await
onResult(M, q, p) ==
  loadSessionMessages(
    [M EXCEPT !.accordions =
       MapWhere(@, TempId(q),
                LAMBDA acc : [acc EXCEPT !.id = SessionId(p),
                                         !.isLoading = FALSE,
                                         !.status = "completed"])],
    SessionId(p))

\* handleQuery's onError
onError(M, q) ==
  [M EXCEPT !.accordions =
              MapWhere(@, TempId(q),
                       LAMBDA acc : [acc EXCEPT !.isLoading = FALSE,
                                                !.status = "error"]),
            !.uiError = "query"]

\* the callbacks that handleMessage invoked, query by query: each query whose
\* log has grown had its callback run with the last entry
RECURSIVE Callbacks(_, _, _, _)
Callbacks(M, old, new, q) ==
  IF q > MaxQueries THEN M
  ELSE IF Len(new[q]) = Len(old[q]) THEN Callbacks(M, old, new, q + 1)
  ELSE LET e == new[q][Len(new[q])]
           N == CASE e.type = "progress" -> onProgress(M, q)
                  [] e.type = "result" -> onResult(M, q, e.from)
                  [] OTHER -> onError(M, q)
       IN Callbacks(N, old, new, q + 1)

\* loadSessionMessages after its await, then onResult's "await loadSessions()"
messagesLoaded(M, id, ok) ==
  [M EXCEPT !.accordions =
              MapWhere(@, id, LAMBDA acc : [acc EXCEPT !.isLoading = FALSE]),
            !.jobs = (@ \ {Job("messages", id)}) \cup {Job("sessions", NoId)}]

\* the elements of a set of numbers in increasing order
RECURSIVE Sorted(_)
Sorted(S) ==
  IF S = {} THEN <<>>
  ELSE LET m == CHOOSE x \in S : \A y \in S : x <= y
       IN <<m>> \o Sorted(S \ {m})

\* loadSessions() after its await: the sessions the server listed replace
\* both lists; when the request failed nothing is set
sessionsLoaded(M, ok, listed) ==
  LET L == Sorted(listed)
      N == [M EXCEPT !.jobs = @ \ {Job("sessions", NoId)}]
  IN IF ok
     THEN [N EXCEPT !.chatSessions = [i \in 1..Len(L) |-> SessionId(L[i])],
                    !.accordions =
                       [i \in 1..Len(L) |->
                          [id |-> SessionId(L[i]), q |-> 0, isLoading |-> FALSE,
                           status |-> "none"]]]
     ELSE N

\* FastAPIClient.deleteSession: what its awaited fetch and response.json()
\* come to: the request is rejected, the status is not OK, the status is OK
\* and the body is not JSON, or the status is OK and the body is returned
DeleteOutcomes == {"rejected", "notOk", "badBody", "ok"}

\* deleteSessionAccordion that removes the accordion whatever the outcome
deleteSessionAccordionOptimistic(M, id, outcome) ==
  LET N == [M EXCEPT !.jobs = @ \ {Job("delete", id)}]
      R == [N EXCEPT !.accordions = SelectSeq(@, LAMBDA acc : acc.id # id),
                     !.chatSessions = SelectSeq(@, LAMBDA x : x # id)]
  IN IF outcome = "ok" THEN R ELSE [R EXCEPT !.uiError = "delete"]

\* deleteSessionAccordion(sessionId) after "await fastapiClient.deleteSession"
deleteSessionAccordion(M, id, outcome) ==
  LET N == [M EXCEPT !.jobs = @ \ {Job("delete", id)}]
  IN IF outcome = "ok"
     THEN [N EXCEPT !.accordions = SelectSeq(@, LAMBDA acc : acc.id # id),
                    !.chatSessions = SelectSeq(@, LAMBDA x : x # id)]
     ELSE [N EXCEPT !.uiError = "delete"]

\* the sessions the server lists: one per query it has accepted, until deleted
ServerSessions(c, gone) == {q \in Queries : c.srv[q].st # "idle"} \ gone

\* ==== FigmaMCPClientCLI ====

\* process.argv[2]: the nine commands of executeCommand's switch, and one
\* that matches none of them
ToolCommands ==
  {"list-tools", "list-prompts", "join-channel", "get-document-info",
   "get-selection", "read-my-design", "create-rectangle"}

Commands == {"connect", "help", "unknown"} \cup ToolCommands

\* the arguments after the command: all that the command needs, or none
CommandArgs == {"valid", "missing"}

NoExit == -1

NoRun ==
  [command |-> "none", args |-> "valid", pc |-> "idle", await |-> 0,
   call |-> 0, cleanup |-> {}, error |-> "none", diag |-> FALSE,
   exit |-> NoExit, ticks |-> 0]

CliInit == cli = NoRun

\* the CLI object: its client and the position of its run
Cli == [client |-> Fig, run |-> cli]

CliBecomes(k) ==
  /\ transport' = k.client.transport
  /\ isConnected' = k.client.isConnected
  /\ sdkTransport' = k.client.sdkTransport
  /\ task' = k.client.task
  /\ started' = k.client.started
  /\ cli' = k.run
  /\ UNCHANGED <<wsVars, mcpVars, storeVars, mgrVars>>

\* the method of FigmaMCPClient that a command of the switch calls
CommandOp(command) ==
  CASE command = "connect" -> "connect"
    [] command = "list-tools" -> "listTools"
    [] command = "list-prompts" -> "listPrompts"
    [] OTHER -> "callTool"

\* the call of task t is over
Finished(f, t) == f.task[t].pc \in {"returned", "threw"}

\* this.client.<op>(...): the call runs as the next task, up to its first await
ClientCall(k, op) ==
  LET t == k.client.started + 1
  IN [k EXCEPT !.client = Call([k.client EXCEPT !.started = t, !.task[t].op = op], t, op)]

\* the process ends with the given status
Exit(k, status) == [k EXCEPT !.run.pc = "exited", !.run.exit = status]

\* run() has returned: the process ends when nothing keeps it alive; no code
\* sets process.exitCode, so its status is 0
runReturned(k) ==
  IF k.run.cleanup = {} THEN Exit(k, 0) ELSE [k EXCEPT !.run.pc = "returned"]

\* keepAlive(): if (this.client.isClientConnected()) setTimeout(keepAlive, 1000)
keepAlive(k) ==
  LET d == [k EXCEPT !.run.ticks = @ + 1]
  IN IF isClientConnected(d.client)
     THEN [d EXCEPT !.run.pc = "keepAlive"]
     ELSE runReturned(d)

\* cleanup after "await this.client.disconnect()": process.exit(0)
cleanupDone(k) == Exit(k, 0)

\* what runs when an awaited call is over, until the next await
RECURSIVE settled(_)

\* run() after executeCommand: the interactive commands keep the process
\* alive, the others "await this.client.disconnect()"
afterExecute(k) ==
  IF k.run.command \in {"connect", "join-channel"}
  THEN keepAlive(k)
  ELSE LET d == ClientCall(k, "disconnect")
       IN settled([d EXCEPT !.run.pc = "disconnect",
                            !.run.await = d.client.started])

\* executeCommand's catch block: console.error, and return
caught(k, e) == [k EXCEPT !.run.error = e, !.run.diag = TRUE]

settled(k) ==
  IF \E t \in k.run.cleanup : Finished(k.client, t)
  THEN cleanupDone(k)
  ELSE IF k.run.pc \in {"execute", "disconnect"} /\ Finished(k.client, k.run.await)
  THEN IF k.run.pc = "disconnect"
       THEN runReturned(k)
       ELSE IF k.client.task[k.run.await].pc = "threw"
       THEN afterExecute(caught(k, k.client.task[k.run.await].err))
       ELSE afterExecute(k)
  ELSE k

\* executeCommand(command, args), with what run() does after it
executeCommand(k) ==
  CASE k.run.command \in {"join-channel", "create-rectangle"} /\ k.run.args = "missing"
         -> afterExecute(caught(k, "MissingArgument"))
    [] k.run.command = "help"
         -> afterExecute(k)
    [] k.run.command = "unknown"
         -> afterExecute([k EXCEPT !.run.diag = TRUE])
    [] OTHER
         -> LET d == ClientCall(k, CommandOp(k.run.command))
            IN settled([d EXCEPT !.run.pc = "execute",
                                 !.run.await = d.client.started,
                                 !.run.call = d.client.started])

\* run() with process.argv = [command, ...args]
run(k, command, args) ==
  executeCommand([k EXCEPT !.run.command = command, !.run.args = args])

\* the SIGINT/SIGTERM handler: await this.client.disconnect(); process.exit(0)
cleanup(k) ==
  LET d == ClientCall(k, "disconnect")
  IN settled([d EXCEPT !.run.cleanup = @ \cup {d.client.started}])

\* a call the run waits for is over and its continuation has not run yet
Urgent ==
  \/ \E t \in cli.cleanup : Finished(Fig, t)
  \/ cli.pc \in {"execute", "disconnect"} /\ Finished(Fig, cli.await)

\* ---- the actions of the CLI ----

\* the operator starts the program
CliRun(command, args) ==
  /\ cli.pc = "idle"
  /\ started = 0
  /\ CliBecomes(run(Cli, command, args))

\* the continuation of an await runs, before any other event is handled
CliResume ==
  /\ Urgent
  /\ CliBecomes(settled(Cli))

\* the operator sends SIGINT or SIGTERM
Signal ==
  /\ cli.pc \in {"execute", "disconnect", "keepAlive", "returned"}
  /\ ~Urgent
  /\ started < MaxTasks
  /\ CliBecomes(cleanup(Cli))

\* the 1000 ms timer that keepAlive() set fires and keepAlive() runs again
KeepAliveTick ==
  /\ cli.pc = "keepAlive"
  /\ ~Urgent
  /\ cli.ticks < MaxTicks
  /\ CliBecomes(keepAlive(Cli))

CliNext ==
  \/ \E command \in Commands, args \in CommandArgs : CliRun(command, args)
  \/ CliResume
  \/ Signal
  \/ KeepAliveTick
  \/ \E t \in Tasks : ~Urgent /\ cli.pc # "exited" /\ ClientConnectOk(t)
  \/ \E t \in Tasks : ~Urgent /\ cli.pc # "exited" /\ ClientConnectFail(t)
  \/ \E t \in Tasks, ok \in BOOLEAN : ~Urgent /\ cli.pc # "exited" /\ Response(t, ok)
  \/ \E t \in Tasks : ~Urgent /\ cli.pc # "exited" /\ CloseOk(t)
  \/ \E t \in Tasks : ~Urgent /\ cli.pc # "exited" /\ CloseRaise(t)
  \/ \E u \in Tasks : ~Urgent /\ cli.pc # "exited" /\ ChannelLost(u)

\* ==== Session Store ====

SessionIds == 1..MaxSessions

\* the query texts and the messages callers pass in
QueryTexts == {"q1", "q2"}
Messages ==
  {[role |-> "user", content |-> "q1"], [role |-> "assistant", content |-> "x"]}

\* no session is stored under the identifier
NoSession == [status |-> "none", query |-> "", messages |-> <<>>]

NoReply == [op |-> "none", out |-> "none"]

\* the store as one record, so that its operations compose as functions
Store == [sessions |-> sessions, created |-> created, reply |-> reply]

Exists(S, id) == id \in SessionIds /\ S.sessions[id].status # "none"

Replied(S, op, out) == [S EXCEPT !.reply = [op |-> op, out |-> out]]

\* createSession(query): a fresh identifier, status active, and an initial
\* user message containing the query
createSession(S, q) ==
  LET id == S.created + 1
  IN Replied([S EXCEPT !.created = id,
                       !.sessions[id] =
                          [status |-> "active", query |-> q,
                           messages |-> <<[role |-> "user", content |-> q]>>]],
             "createSession", id)

\* appendMessage that puts the message at the head of the list
appendMessageAtHead(S, id, m) ==
  IF ~Exists(S, id) THEN Replied(S, "appendMessage", "NotFound")
  ELSE IF S.sessions[id].status # "active"
  THEN Replied(S, "appendMessage", "Rejected")
  ELSE Replied([S EXCEPT !.sessions[id].messages = <<m>> \o @],
               "appendMessage", "ok")

\* appendMessage that does not look at the session's status
appendMessageAnyStatus(S, id, m) ==
  IF ~Exists(S, id) THEN Replied(S, "appendMessage", "NotFound")
  ELSE Replied([S EXCEPT !.sessions[id].messages = Append(@, m)],
               "appendMessage", "ok")

\* appendMessage(sessionId, message): NotFound if the session does not exist;
\* a session that is completed or error is not mutated
appendMessage(S, id, m) ==
  IF ~Exists(S, id) THEN Replied(S, "appendMessage", "NotFound")
  ELSE IF S.sessions[id].status # "active"
  THEN Replied(S, "appendMessage", "Rejected")
  ELSE Replied([S EXCEPT !.sessions[id].messages = Append(@, m)],
               "appendMessage", "ok")

\* setStatus(sessionId, status): a one-way transition away from active;
\* setting active again, or a status on a session that left active, is a no-op
setStatus(S, id, status) ==
  IF ~Exists(S, id) THEN Replied(S, "setStatus", "NotFound")
  ELSE IF S.sessions[id].status = "active" /\ status # "active"
  THEN Replied([S EXCEPT !.sessions[id].status = status], "setStatus", "ok")
  ELSE Replied(S, "setStatus", "ok")

\* getMessages(sessionId): the messages of the session, or NotFound
getMessages(S, id) ==
  IF ~Exists(S, id) THEN Replied(S, "getMessages", "NotFound")
  ELSE Replied(S, "getMessages", S.sessions[id].messages)

\* deleteSession(sessionId): idempotent, a session that does not exist is a no-op
deleteSession(S, id) ==
  Replied([S EXCEPT !.sessions[id] = NoSession], "deleteSession", "ok")

StoreInit ==
  /\ sessions = [id \in SessionIds |-> NoSession]
  /\ created = 0
  /\ reply = NoReply
  /\ accepted = [id \in SessionIds |-> <<>>]

StoreBecomes(S) ==
  /\ sessions' = S.sessions
  /\ created' = S.created
  /\ reply' = S.reply
  /\ UNCHANGED <<wsVars, figVars, mcpVars, cliVars, mgrVars>>

\* the number of appendMessage calls that returned
Appends(ids) ==
  LET RECURSIVE Sum(_)
      Sum(I) == IF I = {} THEN 0
                ELSE LET i == CHOOSE x \in I : TRUE
                     IN Len(accepted[i]) + Sum(I \ {i})
  IN Sum(ids)

\* ---- the operations as the Gateway and the session endpoints call them ----

CreateSession(q) ==
  /\ created < MaxSessions
  /\ StoreBecomes(createSession(Store, q))
  /\ UNCHANGED accepted

AppendMessage(id, m) ==
  /\ Appends(SessionIds) < MaxAppends
  /\ LET S == appendMessage(Store, id, m)
     IN /\ StoreBecomes(S)
        /\ accepted' = IF S.reply.out = "ok"
                       THEN [accepted EXCEPT ![id] = Append(@, m)]
                       ELSE accepted

SetStatus(id, status) ==
  /\ StoreBecomes(setStatus(Store, id, status))
  /\ UNCHANGED accepted

GetMessages(id) ==
  /\ StoreBecomes(getMessages(Store, id))
  /\ UNCHANGED accepted

DeleteSession(id) ==
  /\ StoreBecomes(deleteSession(Store, id))
  /\ accepted' = [accepted EXCEPT ![id] = <<>>]

StoreNext ==
  \/ \E q \in QueryTexts : CreateSession(q)
  \/ \E id \in SessionIds, m \in Messages : AppendMessage(id, m)
  \/ \E id \in SessionIds, status \in {"active", "completed", "error"} : SetStatus(id, status)
  \/ \E id \in SessionIds : GetMessages(id)
  \/ \E id \in SessionIds : DeleteSession(id)

\* ---- the state machine ----

Init ==
  /\ ws = 0
  /\ sock = [s \in Slots |-> FreeSock]
  /\ isConnecting = FALSE
  /\ reconnectAttempts = 0
  /\ reconnectTimers = <<>>
  /\ pendingQueries = {}
  /\ poller = NoCall
  /\ issued = 0
  /\ calls = 0
  /\ origin = [q \in Queries |-> 0]
  /\ srv = [q \in Queries |-> [st |-> "idle", n |-> 0]]
  /\ log = [q \in Queries |-> <<>>]
  /\ interfered = FALSE
  /\ stopped = FALSE
  /\ inbound = NoMessage
  /\ pings = [s \in Slots |-> [sent |-> 0, got |-> 0]]
  /\ FigInit
  /\ McpInit
  /\ CliInit
  /\ StoreInit
  /\ MgrInit

\* the mount effect of FastAPIManager (or any caller) runs connect()
Connect ==
  /\ calls < MaxCalls
  /\ CanConnect(State)
  /\ Becomes(connect([State EXCEPT !.calls = @ + 1, !.stopped = FALSE], MountCall))

\* a caller runs sendQuery(query, undefined, options)
CanSendQuery ==
  /\ issued < MaxQueries
  /\ calls < MaxCalls
  /\ CanConnect(State)

sendQuery(c) ==
  LET q == c.issued + 1
  IN connect([c EXCEPT !.issued = q, !.calls = @ + 1, !.stopped = FALSE], q)

SendQuery ==
  /\ CanSendQuery
  /\ Becomes(sendQuery(State))

\* a caller runs ping()
Ping ==
  /\ calls < MaxCalls
  /\ CanConnect(State)
  /\ Becomes(connect([State EXCEPT !.calls = @ + 1, !.stopped = FALSE], PingCall))

\* a caller (the unmount cleanup of FastAPIManager) runs disconnect()
Disconnect ==
  /\ calls < MaxCalls
  /\ Becomes(disconnect([State EXCEPT !.calls = @ + 1]))

\* the connection of socket s is established
SocketOpen(s) ==
  /\ sock[s].state = "CONNECTING"
  /\ Becomes(onopen(State, s))

\* the scheduleReconnect that onclose runs finds room for its timer
TimerRoom == reconnectAttempts < maxReconnectAttempts => Len(reconnectTimers) < MaxTimers

\* the connection of socket s fails before it is established: error, then close
SocketFail(s) ==
  /\ sock[s].state = "CONNECTING"
  /\ TimerRoom
  /\ Becomes(onclose(onerror(State, s), s))

\* an established connection is closed by the server or lost: close
SocketDrop(s) ==
  /\ sock[s].state = "OPEN"
  /\ TimerRoom
  /\ Becomes(onclose(State, s))

\* the socket that close() was called on closes: error first if it never opened
SocketClose(s) ==
  /\ sock[s].state = "CLOSING"
  /\ TimerRoom
  /\ Becomes(onclose(onerror(State, s), s))

\* the 10 s timer of the connect() that created the socket of slot s fires
ConnectionTimeout(s) ==
  /\ sock[s].timeout
  /\ Becomes(connectionTimeout(State, s))

\* the 100 ms timer of the polling path fires and the poll ends
CheckConnection ==
  /\ poller # NoCall
  /\ isOpen(State) \/ ~isConnecting
  /\ Becomes(checkConnection(State))

Remove(seq, i) == [j \in 1..(Len(seq) - 1) |-> IF j < i THEN seq[j] ELSE seq[j + 1]]

\* the i-th pending timer set by scheduleReconnect fires
Reconnect(i) ==
  /\ i \in 1..Len(reconnectTimers)
  /\ LET c == [State EXCEPT !.reconnectTimers = Remove(@, i),
                            !.reconnectAttempts = @ + 1]
     IN /\ CanConnect(c)
        /\ Becomes(connect(c, ReconnectCall))

\* the number of progress events the server has emitted
RECURSIVE Emitted(_)
Emitted(Q) ==
  IF Q = {} THEN 0
  ELSE LET q == CHOOSE x \in Q : TRUE IN srv[q].n + Emitted(Q \ {q})

\* ws.onmessage: the server's next event for query q arrives on the socket
\* q was sent on (messages still arrive while the socket is closing)
CanReceive(q, t) ==
  /\ srv[q].st = "running"
  /\ origin[q] \in Slots
  /\ sock[origin[q]].state \in {"OPEN", "CLOSING"}
  /\ t = "progress" => Emitted(Queries) < MaxProgress

onmessage(c, q, t) ==
  LET n == IF t = "progress" THEN c.srv[q].n + 1 ELSE 0
      m == [type |-> t, data |-> TRUE, q |-> q, n |-> n]
      d == [c EXCEPT !.srv[q] = IF t = "progress" THEN [@ EXCEPT !.n = n]
                                ELSE [@ EXCEPT !.st = "done"]]
  IN handleMessage(d, m)

Receive(q, t) ==
  /\ CanReceive(q, t)
  /\ Becomes(onmessage(State, q, t))

\* ws.onmessage: the gateway answers a ping it received on socket s with a
\* pong, with or without a data field
Pong(s, data) ==
  /\ pings[s].got < pings[s].sent
  /\ sock[s].state \in {"OPEN", "CLOSING"}
  /\ LET m == [type |-> "pong", data |-> data, q |-> 0, n |-> 0]
     IN Becomes(handleMessage([State EXCEPT !.pings[s].got = @ + 1], m))

\* a message is an event of a query: progress, result or error with data
IsEvent(t, data) == t \in {"progress", "result", "error"} /\ data

\* ws.onmessage: a message that is no event arrives on socket s
Inbound(s, t, data) ==
  /\ inbound.n < MaxInbound
  /\ sock[s].state \in {"OPEN", "CLOSING"}
  /\ ~IsEvent(t, data)
  /\ LET m == [type |-> t, data |-> data, q |-> 0, n |-> 0]
         d == [State EXCEPT !.inbound = [n |-> @.n + 1, type |-> t, data |-> data]]
     IN Becomes(handleMessage(d, m))

\* ---- the actions of FastAPIManager ----

\* a step of the component alone
MgrOnly(M) ==
  /\ MgrBecomes(M)
  /\ UNCHANGED <<wsVars, figVars, mcpVars, cliVars, storeVars>>

\* the user submits a query: handleQuery runs up to its await of sendQuery
HandleQuery ==
  /\ CanSendQuery
  /\ WsBecomes(sendQuery(State))
  /\ MgrBecomes(handleQuery(Mgr, issued + 1))

\* ws.onmessage with the component's callbacks registered
MgrReceive(q, t) ==
  /\ CanReceive(q, t)
  /\ LET c == onmessage(State, q, t)
     IN /\ WsBecomes(c)
        /\ MgrBecomes(Callbacks(Mgr, log, c.log, 1))

\* the mount effect (or checkConnection) calls loadSessions()
LoadSessions ==
  /\ Job("sessions", NoId) \notin jobs
  /\ MgrOnly([Mgr EXCEPT !.jobs = @ \cup {Job("sessions", NoId)}])

\* getSessionMessages(id) returns or fails
MessagesLoaded(id, ok) ==
  /\ Job("messages", id) \in jobs
  /\ MgrOnly(messagesLoaded(Mgr, id, ok))

\* getSessions() returns the server's list, or fails
SessionsLoaded(ok) ==
  /\ Job("sessions", NoId) \in jobs
  /\ MgrOnly(sessionsLoaded(Mgr, ok, ServerSessions(State, deleted)))

\* the user clicks Delete on an accordion: deleteSessionAccordion(accordion.id)
\* runs up to its await
DeleteClicked(i) ==
  /\ i \in 1..Len(accordions)
  /\ Job("delete", accordions[i].id) \notin jobs
  /\ MgrOnly([Mgr EXCEPT !.jobs = @ \cup {Job("delete", accordions[i].id)}])

\* the server knows the session of this id
OnServer(id) == \E q \in ServerSessions(State, deleted) : id = SessionId(q)

\* the delete request for id comes to its outcome; with an OK status the
\* server has deleted the session
DeleteDone(id, outcome) ==
  /\ Job("delete", id) \in jobs
  /\ outcome \in {"ok", "badBody"} => OnServer(id)
  /\ LET M == deleteSessionAccordion(Mgr, id, outcome)
     IN MgrOnly(IF outcome \in {"ok", "badBody"}
                THEN [M EXCEPT !.deleted = @ \cup {q \in Queries : id = SessionId(q)}]
                ELSE M)

\* queries and their events, with the session list reloaded
ManagerNext ==
  \/ HandleQuery
  \/ \E s \in Slots : SocketOpen(s)
  \/ \E q \in Queries, t \in {"progress", "result", "error"} : MgrReceive(q, t)
  \/ LoadSessions
  \/ \E id \in AccordionIds, ok \in BOOLEAN : MessagesLoaded(id, ok)
  \/ \E ok \in BOOLEAN : SessionsLoaded(ok)

\* the session panel while the server sends no event: queries are submitted,
\* the list is reloaded and sessions are deleted
PanelNext ==
  \/ HandleQuery
  \/ \E s \in Slots : SocketOpen(s)
  \/ LoadSessions
  \/ \E ok \in BOOLEAN : SessionsLoaded(ok)
  \/ \E i \in 1..MaxQueries : DeleteClicked(i)
  \/ \E id \in AccordionIds, outcome \in DeleteOutcomes : DeleteDone(id, outcome)

\* the client's queries on a channel that carries events and other messages
InboundNext ==
  \/ SendQuery
  \/ \E s \in Slots : SocketOpen(s)
  \/ \E q \in Queries, t \in {"progress", "result", "error"} : Receive(q, t)
  \/ \E s \in Slots, t \in MessageTypes, data \in BOOLEAN : Inbound(s, t, data)

\* the client and its sockets; the server stays silent
ClientNext ==
  \/ Connect
  \/ SendQuery
  \/ Disconnect
  \/ \E s \in Slots : SocketOpen(s)
  \/ \E s \in Slots : SocketFail(s)
  \/ \E s \in Slots : SocketDrop(s)
  \/ \E s \in Slots : SocketClose(s)
  \/ \E s \in Slots : ConnectionTimeout(s)
  \/ CheckConnection
  \/ \E i \in 1..MaxTimers : Reconnect(i)

Next ==
  \/ ClientNext
  \/ \E q \in Queries, t \in {"progress", "result", "error"} : Receive(q, t)
  \/ Ping
  \/ \E s \in Slots, data \in BOOLEAN : Pong(s, data)
  \/ FigNext
  \/ McpNext
  \/ CliNext
  \/ StoreNext
  \/ ManagerNext
  \/ PanelNext
  \/ InboundNext

Spec == Init /\ [][Next]_vars

\* the channel's life cycle with a server that never answers
ClientSpec == Init /\ [][ClientNext]_vars

\* the client and the server's events in the 10 s after the first connect():
\* no connection timeout has fired yet, so no slot is reused
TrafficNext ==
  \/ Connect
  \/ SendQuery
  \/ Disconnect
  \/ \E s \in Slots : SocketOpen(s)
  \/ \E s \in Slots : SocketFail(s)
  \/ \E s \in Slots : SocketDrop(s)
  \/ \E s \in Slots : SocketClose(s)
  \/ CheckConnection
  \/ \E i \in 1..MaxTimers : Reconnect(i)
  \/ \E q \in Queries, t \in {"progress", "result", "error"} : Receive(q, t)
  \/ Ping
  \/ \E s \in Slots, data \in BOOLEAN : Pong(s, data)

TrafficSpec == Init /\ [][TrafficNext]_vars

\* the two tool clients and their callers
DispatcherNext ==
  \/ FigNext
  \/ McpNext

DispatcherSpec == Init /\ [][DispatcherNext]_vars

\* one run of the command line program
CliSpec == Init /\ [][CliNext]_vars

\* the Session Store and its callers
StoreSpec == Init /\ [][StoreNext]_vars

\* the client's queries on a channel that carries events and other messages
InboundSpec == Init /\ [][InboundNext]_vars

\* FastAPIManager on a channel that stays open
ManagerSpec == Init /\ [][ManagerNext]_vars

\* FastAPIManager's session panel
PanelSpec == Init /\ [][PanelNext]_vars

\* ==== the claims about WebSocketClient ====

Terminal == {"result", "error"}

\* the positions of the terminal callbacks (onResult, onError) in q's log
Terminals(q) == {i \in 1..Len(log[q]) : log[q][i].type \in Terminal}

HasError(q) == \E i \in 1..Len(log[q]) : log[q][i].type = "error"

\* C1: with several queries in flight on one channel, a progress, result or
\* error event reaches only the callbacks of the query that originated it.
C1_OwnEventsOnly ==
  \A q \in Queries : \A i \in 1..Len(log[q]) : log[q][i].from = q

\* C2 (safety part): a query that was registered and sent is still pending
\* or has had its terminal event; a query that is neither can never get its
\* onResult or onError.
C2_SentQueryPendingOrTerminated ==
  \A q \in Queries : origin[q] # 0 => q \in pendingQueries \/ Terminals(q) # {}

\* C3: onResult and onError are together invoked at most once per query.
C3_AtMostOneTerminal ==
  \A q \in Queries : Cardinality(Terminals(q)) <= 1

\* two terminal events have arrived and query q, in flight with the other
\* query, got exactly one
C3_Witness ==
  \E q \in Queries, p \in Queries :
    /\ q # p
    /\ srv[q].st = "done" /\ srv[p].st = "done"
    /\ origin[q] \in Slots /\ origin[q] = origin[p]
    /\ Cardinality(Terminals(q)) = 1

\* C4: the progress events of one query reach onProgress in the order of
\* their arrival (the server's emission order), and onProgress is never
\* invoked for a query after its onResult or onError.
C4_ProgressInOrderBeforeTerminal ==
  \A q \in Queries : \A i, j \in 1..Len(log[q]) :
    i < j =>
      /\ log[q][i].type \in Terminal => log[q][j].type # "progress"
      /\ (log[q][i].type = "progress" /\ log[q][j].type = "progress"
          /\ log[q][i].from = log[q][j].from) => log[q][i].n < log[q][j].n

\* query q got a progress event of its own and then a terminal event, and
\* its second progress event arrived after that
C4_Witness ==
  \E q \in Queries :
    /\ Len(log[q]) = 2
    /\ log[q][1].type = "progress" /\ log[q][1].from = q
    /\ log[q][2].type \in Terminal
    /\ srv[q].n = 2

ReconnectCompletesOpen ==
  \/ Len(reconnectTimers') < Len(reconnectTimers) /\ isOpen(State)
  \/ \E s \in Slots : /\ sock[s].state = "CONNECTING"
                      /\ sock[s].promise = "pending"
                      /\ sock[s].owner = ReconnectCall
                      /\ sock'[s].state = "OPEN"
  \/ poller = ReconnectCall /\ poller' = NoCall /\ isOpen(State)

\* C6: when a reconnect attempt completes with the socket open,
\* reconnectAttempts is zero afterwards.
C6_ReconnectOpenResetsCounter ==
  [][ReconnectCompletesOpen => reconnectAttempts' = 0]_vars

\* C7: a sendQuery called in GivenUp fails at once with an error event for
\* its query and starts no connection attempt.
C7_GivenUpQueryFailsAtOnce ==
  [][(GivenUp /\ issued' > issued) =>
       /\ \E i \in 1..Len(log'[issued']) : log'[issued'][i].type = "error"
       /\ \A s \in Slots : sock'[s].state = "CLOSED"]_vars

\* C8: in GivenUp every query still pending on the channel has had its
\* onError invoked.
C8_GivenUpSurfacesError ==
  GivenUp => \A q \in pendingQueries : HasError(q)

\* C9 (own socket): a connect() call that is still waiting has its connect
\* timeout ahead; once the timeout has expired the call has completed.
C9_TimeoutSettlesConnect ==
  \A s \in Slots : sock[s].promise = "pending" => sock[s].timeout

\* C10: no callback of a query is invoked after the socket the query was
\* sent on has closed.
C10_NoCallbackAfterClose ==
  \A q \in Queries : \A i \in 1..Len(log[q]) : ~log[q][i].late

\* C19: a sendQuery made on an open socket is registered and sent in the
\* call itself, whatever queries are pending, and leaves those pending; the
\* server's terminal events are accepted in any order.
C19_NoHeadOfLineBlocking ==
  [][(issued' = issued + 1 /\ isOpen(State)) =>
       /\ issued' \in pendingQueries'
       /\ origin'[issued'] = ws
       /\ srv'[issued'].st = "running"
       /\ pendingQueries \subseteq pendingQueries']_vars

\* query p was sent while the earlier query q was in flight on the same
\* socket, and p's terminal event has arrived before q's
C19_Witness ==
  \E q \in Queries, p \in Queries :
    /\ q < p
    /\ origin[q] \in Slots /\ origin[p] = origin[q]
    /\ srv[q].st = "running" /\ srv[p].st = "done"
    /\ \E i \in 1..Len(log[p]) : log[p][i].type \in Terminal /\ log[p][i].from = p

Done == {"returned", "threw"}

\* task t, running operation op, ends in this step
Ends(t, op) ==
  /\ task'[t].op = op
  /\ task[t].pc \notin Done
  /\ task'[t].pc \in Done

\* a call of operation op on McpClient is made in this step
McpDoes(op) ==
  /\ Len(mcp') = Len(mcp) + 1
  /\ mcp'[Len(mcp')].op = op

\* C11: a disconnect() call raises no error and the connected predicate is
\* false after it, on each of the three clients and whatever the outcome of
\* the underlying close; so it is after each of two calls in a row.
C11_DisconnectLeavesDisconnected ==
  [][/\ \A t \in Tasks :
          Ends(t, "disconnect") => task'[t].pc = "returned" /\ ~isConnected'
     /\ McpDoes("disconnect") => ~connected'
     /\ Disconnect => (ws' = 0 \/ sock'[ws'].state # "OPEN")]_vars

\* task t is started in this step, with operation op
Starts(t, op) == task[t].op = "none" /\ task'[t].op = op

\* C12: a dispatcher operation invoked while the client is not connected
\* fails with "Not connected to MCP server", sends no request, and leaves
\* the connection state as it was (FigmaMCPClient and McpClient).
C12_NotConnectedFailsFast ==
  [][/\ \A t \in Tasks, op \in Dispatch :
          (Starts(t, op) /\ ~isConnected) =>
             /\ task'[t].pc = "threw"
             /\ task'[t].err = "NotConnected"
             /\ task'[t].sent = 0
             /\ UNCHANGED <<isConnected, transport, sdkTransport>>
             /\ \A u \in Tasks : task'[u].chan = task[u].chan
     /\ ((McpDoes("listTools") \/ McpDoes("callTool")) /\ ~connected) =>
          /\ mcp'[Len(mcp')].out = "NotConnected"
          /\ ~connected']_vars

\* each client has refused a dispatcher operation while it was not connected
C12_Witness ==
  /\ \E t \in Tasks : /\ task[t].op \in Dispatch
                      /\ task[t].err = "NotConnected"
                      /\ task[t].sent = 0
  /\ \E i \in 1..Len(mcp) : mcp[i].out = "NotConnected"

\* a connect() call has started and its initialization exchange
\* (listCapabilities) has not completed
Initializing == \E u \in Tasks : task[u].op = "connect" /\ task[u].pc \notin Done

\* C13: a listTools, listPrompts, callTool or getPrompt call issued after
\* connect() has started and before its initialization exchange has
\* completed fails with NotConnected.
C13_NoRequestBeforeInitialized ==
  [][\A t \in Tasks, op \in Dispatch \ {"listCapabilities"} :
       (Starts(t, op) /\ Initializing) =>
          task'[t].pc = "threw" /\ task'[t].err = "NotConnected"]_vars

\* C14: after FigmaMCPClient.disconnect() returns, no subprocess channel is
\* live and the client is not connected: also when the underlying close
\* raised, and also when the channel was created by a connect() that failed.
C14_DisconnectReleasesChannel ==
  [][\A t \in Tasks :
       Ends(t, "disconnect") =>
          /\ {u \in Tasks : task'[u].chan \in {"starting", "open"}} = {}
          /\ ~isConnected']_vars

\* C15: disconnect() on a client whose connect() never succeeded (never
\* called, or called and failed) raises no error, performs no close on the
\* protocol client and leaves the client not connected.
NeverConnected == \A u \in Tasks : task[u].op = "connect" => task[u].pc = "threw"

C15_DisconnectBeforeConnectIsNoOp ==
  [][/\ \A t \in Tasks :
          (Starts(t, "disconnect") /\ NeverConnected) =>
             /\ task'[t].pc = "returned"
             /\ ~isConnected'
             /\ UNCHANGED <<transport, sdkTransport>>
     /\ (Disconnect /\ \A s \in Slots : sock[s].state # "OPEN") =>
          (ws' = 0 \/ sock'[ws'].state # "OPEN")]_vars

\* the dispatcher operations of the claims about requests
Calls == {"listTools", "listPrompts", "callTool", "getPrompt"}

\* an open subprocess channel closes in this step
ChannelCloses == \E u \in Tasks : task[u].chan = "open" /\ task'[u].chan = "closed"

C17_OneRequestNoRetry ==
  \A t \in Tasks :
    task[t].op \in Calls =>
      /\ task[t].sent <= 1
      /\ task[t].pc \in {"request", "returned"} => task[t].sent = 1
      /\ (task[t].pc = "threw" /\ task[t].err # "NotConnected") =>
           task[t].err \in {"ConnectionClosed", "RequestError"}

\* a call's request failed: the call threw and sent nothing more
C17_Witness ==
  \E t \in Tasks :
    /\ task[t].op \in Calls
    /\ task[t].pc = "threw" /\ task[t].err = "RequestError"
    /\ task[t].sent = 1

\* C18: on a connected client, callTool with a name that is not in the tool
\* catalogue returns a result with isError true and non-empty text (it does
\* not throw); with a catalogued name it returns a result with isError unset.
C18_UnknownToolIsErrorResult ==
  \A i \in 1..Len(mcp) :
    (mcp[i].op = "callTool" /\ mcp[i].out # "NotConnected") =>
      /\ mcp[i].out = "result"
      /\ mcp[i].name \notin Catalogue => mcp[i].isError = "true" /\ mcp[i].text
      /\ mcp[i].name \in Catalogue => mcp[i].isError = "unset"

\* ==== the claims about the command line program ====

\* the command of the run raised an error that nothing recovered from
CommandFailed == cli.error # "none" \/ cli.command = "unknown"

\* C21: a CLI run ends with exit status 0 when its command succeeded, and
\* with a non-zero exit status when the command raised an unrecovered error
\* (failed connect, NotConnected, missing argument, unknown command), the
\* error message having been written to the diagnostic stream.
C21_ExitStatusTellsFailure ==
  cli.pc = "exited" =>
    /\ ~CommandFailed => cli.exit = 0
    /\ CommandFailed => cli.exit # 0 /\ cli.diag

\* C22: a CLI run of a command that uses the tool server, with valid
\* arguments, issues the corresponding request to the tool server over a
\* live connection: once the command is over, its call has sent one request.
C22_ToolCommandIssuesRequest ==
  (/\ cli.command \in ToolCommands
   /\ cli.args = "valid"
   /\ cli.pc \in {"disconnect", "keepAlive", "returned", "exited"})
    => cli.call \in Tasks /\ task[cli.call].sent = 1

\* ==== the claims about FastAPIManager ====

\* C23: two queries issued back-to-back on one channel end up as two
\* sessions with distinct identifiers: the ids of the accordions in the list
\* are pairwise distinct in every reachable state, also after both results
\* have arrived.
C23_AccordionIdsDistinct ==
  \A p, q \in Accordions(State) :
    p # q => AccordionId(State, p) # AccordionId(State, q)

\* ==== the claims about the Session Store ====

\* the contents of a list of messages
RECURSIVE Contents(_)
Contents(ms) == IF ms = <<>> THEN <<>> ELSE <<Head(ms).content>> \o Contents(Tail(ms))

\* seq a is an initial part of seq b
IsPrefix(a, b) == Len(a) <= Len(b) /\ SubSeq(b, 1, Len(a)) = a

\* C24: session round trip: after createSession(q) and any sequence of
\* appendMessage calls on that session, getMessages returns the messages in
\* append order and the first message's content is q; the order of the
\* messages already appended never changes.
C24_SessionRoundTrip ==
  /\ [](\A id \in SessionIds :
          Exists(Store, id) =>
            LET got == getMessages(Store, id).reply.out
            IN /\ got = <<[role |-> "user", content |-> sessions[id].query]>> \o accepted[id]
               /\ Head(got).content = sessions[id].query)
  /\ [][\A id \in SessionIds :
          Exists(Store, id) /\ sessions'[id].status # "none"
            => IsPrefix(sessions[id].messages, sessions'[id].messages)]_vars

C24_Witness ==
  \E id \in SessionIds :
    /\ Len(accepted[id]) = 2
    /\ accepted[id][1] # accepted[id][2]
    /\ reply.op = "getMessages"
    /\ reply.out = sessions[id].messages

LiveSockets == {s \in Slots : sock[s].state \in {"CONNECTING", "OPEN"}}

\* C26: the client holds at most one live socket at any time: connect()
\* never creates a WebSocket while a socket it created earlier is still
\* connecting or open.
C26_AtMostOneLiveSocket == Cardinality(LiveSockets) <= 1

\* a WebSocket is created in this step
SocketCreated ==
  \E s \in Slots : sock'[s].state = "CONNECTING" /\ sock[s].state # "CONNECTING"

\* C27: after an explicit disconnect() the client makes no automatic
\* reconnect attempt: no socket is created until a caller invokes connect(),
\* sendQuery() or ping() again.
C27_NoReconnectAfterDisconnect ==
  [][stopped /\ stopped' => ~SocketCreated]_vars

\* the close event of the socket of slot s is handled in this step
Closes(s) == sock[s].state # "CLOSED" /\ sock'[s].state = "CLOSED"

\* C28: a close event of a socket that is no longer the client's current
\* socket leaves the current socket reference and the isConnecting flag
\* unchanged: isConnected() does not turn false while the current socket is
\* open.
C28_StaleCloseLeavesCurrent ==
  [][\A s \in Slots :
       Closes(s) /\ ws # 0 /\ ws # s
         => ws' = ws /\ isConnecting' = isConnecting]_vars

\* C29: in every reachable state 0 <= reconnectAttempts <=
\* maxReconnectAttempts, also when connect() calls of callers fail while a
\* reconnect timer is pending.
C29_AttemptsWithinBound ==
  0 <= reconnectAttempts /\ reconnectAttempts <= maxReconnectAttempts

\* a connect() is called in this step: by a caller or by a reconnect timer
ConnectCalled ==
  \/ calls' > calls /\ ~stopped'
  \/ Len(reconnectTimers') < Len(reconnectTimers)

\* the connect() of sendQuery q resolves true in this step: q is registered
ResolvesTrue(q) == q \notin pendingQueries /\ q \in pendingQueries'

\* the connect() of sendQuery q, waiting in the polling loop, resolves false
\* in this step: the poll ends and q is not registered
ResolvesFalse(q) == poller = q /\ poller' = NoCall /\ q \notin pendingQueries'

\* C30: a connect() call made while another attempt is in progress creates
\* no socket of its own; it resolves true only if the socket is open at the
\* moment it resolves, and false only if no attempt is in progress and the
\* socket is not open.
C30_PollingConnectFollowsAttempt ==
  [][/\ ConnectCalled /\ isConnecting => ~SocketCreated
     /\ \A q \in Queries :
          /\ (poller = q \/ (isConnecting /\ issued' = q /\ issued # q)) /\ ResolvesTrue(q)
               => isOpen([ws |-> ws', sock |-> sock'])
          /\ ResolvesFalse(q)
               => ~isConnecting' /\ ~isOpen([ws |-> ws', sock |-> sock'])]_vars

\* the connect() of a sendQuery waits in the polling loop
C30_Witness == poller \in Queries /\ isConnecting /\ ~isOpen(State)

\* ==== further claims about FigmaMCPClient ====

\* C31: if connect() fails (throws), in the protocol connect or in the
\* capability exchange that follows it, isClientConnected() is false
\* afterwards.
C31_FailedConnectLeavesDisconnected ==
  [][\A t \in Tasks :
       Ends(t, "connect") /\ task'[t].pc = "threw"
         => ~isClientConnected([isConnected |-> isConnected'])]_vars

\* C32: the client owns at most one live subprocess transport at any time:
\* over any sequence of connect() and disconnect() calls a new transport is
\* created only after the previous one has been released.
C32_AtMostOneLiveTransport == Cardinality(Live(Fig)) <= 1

\* ==== further claims about the command line program ====

\* C33: when the tool-server channel is lost while the CLI is in keep-alive
\* mode (the command had succeeded), isClientConnected() becomes false and
\* the keep-alive loop stops rescheduling itself: a run of keepAlive() after
\* the loss sets no timer.
C33_KeepAliveStopsOnChannelLoss ==
  [][(/\ cli.pc = "keepAlive"
      /\ cli.error = "none"
      /\ Live(Fig) = {}
      /\ cli'.ticks > cli.ticks)
       => ~isClientConnected([isConnected |-> isConnected']) /\ cli'.pc # "keepAlive"]_vars

\* the terminal event of query q itself has been applied to q's accordion
OwnTerminalApplied(q) ==
  \E i \in 1..Len(log[q]) : log[q][i].type \in Terminal /\ log[q][i].from = q

\* the accordion that handleQuery created for query q is in the list
HasAccordion(q) == \E i \in 1..Len(accordions) : accordions[i].q = q

\* C34: the accordion created for a query stays in the accordion list from
\* the moment the query is issued until the query's own terminal event is
\* applied to it; no reload of the session list removes or replaces it.
C34_InFlightAccordionStays ==
  \A q \in 1..issued : ~OwnTerminalApplied(q) => HasAccordion(q)

\* deleteSessionAccordion(id) starts, and returns from its await
DeleteStarts(id) == Job("delete", id) \notin jobs /\ Job("delete", id) \in jobs'
DeleteEnds(id) == Job("delete", id) \in jobs /\ Job("delete", id) \notin jobs'

\* the two lists are what they were
ListsUnchanged == accordions' = accordions /\ chatSessions' = chatSessions

\* id is in one of the lists
Listed(accs, sess, id) ==
  \/ \E i \in 1..Len(accs) : accs[i].id = id
  \/ \E i \in 1..Len(sess) : sess[i] = id

\* C36: when the delete request is rejected or returns a non-OK status (the
\* server keeps the session), deleteSessionAccordion leaves the accordion
\* list and the session list unchanged and sets the error state; it removes
\* the session from the two lists only after the delete succeeded, never
\* before the request returned.
C36_FailedDeleteKeepsLists ==
  [][\A id \in AccordionIds :
       /\ DeleteStarts(id) => ListsUnchanged
       /\ DeleteEnds(id) /\ deleted' = deleted
            => ListsUnchanged /\ uiError' = "delete"
       /\ DeleteEnds(id) /\ ~ListsUnchanged
            => /\ deleted' # deleted
               /\ ~Listed(accordions', chatSessions', id)]_vars

\* a delete failed while the server keeps every session: the error is set
\* and the session is still in both lists
C36_Witness ==
  /\ uiError = "delete"
  /\ deleted = {}
  /\ jobs = {}
  /\ \E q \in Queries :
       /\ \E i \in 1..Len(accordions) : accordions[i].id = SessionId(q)
       /\ \E i \in 1..Len(chatSessions) : chatSessions[i] = SessionId(q)

\* C35: handleMessage leaves pendingQueries unchanged and invokes no callback
\* for a message that is not a progress, result or error event carrying
\* data: a message of type query, ping or pong, and a progress, result or
\* error message without a data field.
C35_OtherMessagesIgnored ==
  [][inbound'.n > inbound.n => UNCHANGED <<log, pendingQueries>>]_vars

\* a result message without data has arrived on the socket of a pending
\* query, which is still pending with no callback invoked
C35_Witness ==
  /\ inbound.n > 0
  /\ inbound.type = "result"
  /\ ~inbound.data
  /\ \E q \in pendingQueries :
       origin[q] \in Slots /\ sock[origin[q]].state = "OPEN" /\ log[q] = <<>>

====
